---- MODULE Spec2Model ----
(***************************************************************************)
(* Model of oxasl_multite/api.py: the multi-TE ASL fitting plugin.         *)
(*                                                                         *)
(* A run of model_multite is a sequential program; pc is its position.     *)
(* The workspace tree is kept as one variable per namespace that the code  *)
(* touches.  The collaborators (the ASL data container, Fabber, the        *)
(* oxford_asl output routines) are modelled by what the code relies on:    *)
(* each either returns or raises.                                          *)
(***************************************************************************)
EXTENDS Integers, Sequences, FiniteSets, TLC

\* ------------------------------------------------------------------ bounds
\* Largest per-TI repeat count of an input dataset.
MaxRpt == 2
\* Largest value of an entry of Fabber's result.
MaxVal == 1

\* Python's None, for the slots that hold a path or nothing.
None == "None"

\* ------------------------------------------------------- the ASL dataset
\* Timing metadata of the input datasets: one entry per TI, per TE.
InputTis == <<14, 18>>
InputTes == <<0, 2>>
InputTaus == <<10, 10>>

\* Orderings an input dataset may have: fastest varying first
\* (l = label/control pair, r = repeat, t = TI, e = TE).
InputOrders == { <<"l", "r", "t", "e">>, <<"e", "l", "t", "r">> }

\* The image a raw volume holds, by its position l in the pair and the
\* dataset's iaf ("tc" = tag first, "ct" = control first).
PairImg(iaf, l) ==
    IF (iaf = "tc") = (l = 0) THEN "tag" ELSE "ctl"

\* v comes strictly before w when the volumes are laid out in `order`:
\* compare on the slowest varying index first (the last letter of order).
RECURSIVE Before(_, _, _, _)
Before(v, w, order, i) ==
    IF i = 0 THEN FALSE
    ELSE IF v[order[i]] # w[order[i]] THEN v[order[i]] < w[order[i]]
    ELSE Before(v, w, order, i - 1)

\* The volumes of the set S laid out in `order`.
Layout(S, order) ==
    [i \in 1..Cardinality(S) |->
        CHOOSE v \in S :
            Cardinality({w \in S : Before(w, v, order, Len(order))}) = i - 1]

\* The raw volumes of a label/control dataset with the given repeats per TI.
RawVols(iaf, rpts) ==
    { [t |-> t, e |-> e, r |-> r, l |-> l, img |-> PairImg(iaf, l)] :
        t \in 1..Len(rpts), e \in 1..Len(InputTes),
        r \in 1..MaxRpt, l \in 0..1 }

\* An input dataset as loaded by the pipeline.
AslImage(iaf, order, rpts) ==
    [iaf |-> iaf, order |-> order, rpts |-> rpts,
     tis |-> InputTis, tes |-> InputTes, taus |-> InputTaus,
     vols |-> Layout({v \in RawVols(iaf, rpts) : v.r <= rpts[v.t]}, order)]

InputDatasets ==
    { AslImage(iaf, order, rpts) :
        iaf \in {"tc", "ct"}, order \in InputOrders,
        rpts \in [1..Len(InputTis) -> 1..MaxRpt] }

SeqToSet(s) == { s[i] : i \in 1..Len(s) }

\* AslImage.is_var_repeats(): the repeat counts differ between TIs.
is_var_repeats(ds) ==
    \E i, j \in 1..Len(ds.rpts) : ds.rpts[i] # ds.rpts[j]

\* AslImage.reorder(out_order): the same volumes laid out in out_order.
reorder(ds, out_order) ==
    [ds EXCEPT !.order = out_order,
               !.vols = Layout(SeqToSet(ds.vols), out_order)]

\* Subtraction of two volumes of one pair: control minus tag.
Subtract(a, b) ==
    [t |-> a.t, e |-> a.e, r |-> a.r, plus |-> a.img, minus |-> b.img]

\* The order with the letter l removed.
RECURSIVE WithoutL(_)
WithoutL(order) ==
    IF order = <<>> THEN <<>>
    ELSE IF Head(order) = "l" THEN WithoutL(Tail(order))
    ELSE <<Head(order)>> \o WithoutL(Tail(order))

\* AslImage.diff(): bring the pairs together (l fastest), then subtract
\* within each pair; the result has iaf "diff" and no l in its order.
diff(ds) ==
    LET paired == Layout(SeqToSet(ds.vols), <<"l">> \o WithoutL(ds.order))
        n == Len(paired) \div 2
    IN  [ds EXCEPT
            !.iaf = "diff",
            !.order = WithoutL(ds.order),
            !.vols = [i \in 1..n |->
                        IF ds.iaf = "tc"
                        THEN Subtract(paired[2 * i], paired[2 * i - 1])
                        ELSE Subtract(paired[2 * i - 1], paired[2 * i])]]

\* ------------------------------------------------------- the workspace
VARIABLES
    pc,            \* position of the run inside model_multite / fit_multite
    wsp,           \* attributes of the top-level workspace (inputs, options)
    subs,          \* sub-namespaces created so far, by path
    multite,       \* attributes set on wsp.multite itself
    init_mvn,      \* local init_mvn of fit_multite ("unset" before line 76)
    options,       \* local options of fit_multite (<<>> before line 84)
    fabber_calls,  \* the option mappings Fabber has been invoked with
    fabber_result, \* local result of _run_fabber (<<>> before line 23 returns)
    finalstep,     \* attributes set on wsp.multite.finalstep
    saved,         \* keys of finalstep registered for persistence with save_fn
    native,        \* attributes of wsp.output.native
    reg_args,      \* the arguments redo_reg has been called with
    trans,         \* TRUE once output_trans has written its outputs
    log,           \* markers written to wsp.log, in order
    started,       \* steps of model_multite begun, in order
    completed,     \* steps of model_multite that returned, in order
    error          \* the exception that left model_multite, or "none"

vars == <<pc, wsp, subs, multite, init_mvn, options, fabber_calls,
          fabber_result, finalstep,
          saved, native, reg_args, trans, log, started, completed, error>>

\* Names bound in the module's global scope: the imports and the definitions.
ModuleNames ==
    {"np", "LOAD", "Image", "basil", "OptionCategory", "IgnorableOptionGroup",
     "Report", "fabber", "__version__", "_run_fabber", "_fabber_options",
     "fit_multite", "model_multite", "MultiTEOptions"}

BioKeys == {"t1", "t1b", "t2", "t2b"}

\* Values a biophysical constant is given in the configuration (in tenths
\* of a second); 0 is the value that is set and yet false in Python.
BioValues == {0, 13}

\* All mappings from a subset of the keys K to values in V.
PartialMaps(K, V) == UNION { [S -> V] : S \in SUBSET K }

\* A dataset a user may name as "data" in the override file.
UserData ==
    [iaf |-> "diff", order |-> <<"t", "r">>, rpts |-> <<1>>,
     tis |-> <<14>>, tes |-> <<0>>, taus |-> <<10>>, vols |-> <<>>]

\* Contents of a --multite-options file.
OverrideMaps ==
    { <<>>,
      "max-iterations" :> 50,
      "t1" :> 16,
      ("data" :> UserData) @@ ("t2b" :> 0) @@ ("method" :> "nlls") }

\* Workspace.ifnone(name, default) on the attribute mapping w.
ifnone(w, name, default) ==
    IF name \in DOMAIN w THEN w[name] ELSE default

\* Attribute lookup in a sub-namespace: its own attributes, then its parent's.
View(ns) == ns @@ wsp

\* savedir of a sub-namespace: a directory below the parent's, if it has one.
SubSavedir(name) ==
    IF wsp["savedir"] = None THEN None ELSE name

\* ------------------------------------------------------ _fabber_options
\* GeneralOptions taking the number of repeat entries for the repeat count.
GeneralOptions_len_rpts(w) ==
    ("method" :> "vb") @@ ("noise" :> "white") @@ ("model" :> "asl_multite")
    @@ ("data" :> w["asldata"]) @@ ("mask" :> w["mask"])
    @@ ("ti" :> w["asldata"].tis) @@ ("te" :> w["asldata"].tes)
    @@ ("tau" :> w["asldata"].taus) @@ ("repeats" :> Len(w["asldata"].rpts))
    @@ ("infertexch" :> TRUE) @@ ("save-mean" :> TRUE)
    @@ ("save-model-fit" :> TRUE) @@ ("max-iterations" :> 30)

GeneralOptions(w) ==
    ("method" :> "vb") @@ ("noise" :> "white") @@ ("model" :> "asl_multite")
    @@ ("data" :> w["asldata"]) @@ ("mask" :> w["mask"])
    @@ ("ti" :> w["asldata"].tis) @@ ("te" :> w["asldata"].tes)
    @@ ("tau" :> w["asldata"].taus) @@ ("repeats" :> w["asldata"].rpts[1])
    @@ ("infertexch" :> TRUE) @@ ("save-mean" :> TRUE)
    @@ ("save-model-fit" :> TRUE) @@ ("max-iterations" :> 30)

\* BioOptions testing the value's truth ("if val:") instead of "is not None".
BioOptions_truthy(w) ==
    [opt \in {k \in BioKeys : k \in DOMAIN w /\ w[k] # 0} |-> w[opt]]

\* The loop over t1, t1b, t2, t2b: the constants that are not None.
BioOptions(w) ==
    [opt \in {k \in BioKeys : k \in DOMAIN w} |-> w[opt]]

\* dict.update: the entries of `other` replace those of `d`.
update(d, other) == other @@ d

\* _fabber_options with the override mapping merged first instead of last.
_fabber_options_override_first(w) ==
    update(update(ifnone(w, "multite_options", <<>>), GeneralOptions(w)),
           BioOptions(w))

_fabber_options(w) ==
    update(update(GeneralOptions(w), BioOptions(w)),
           ifnone(w, "multite_options", <<>>))

\* ---------------------------------------------------------- _run_fabber
\* What Fabber may return: a logfile entry (a path or None), and the mean map.
Results ==
    { ("logfile" :> lf) @@ m :
        lf \in {None, "/tmp/log.txt"},
        m \in PartialMaps({"mean_ftiss"}, 0..MaxVal) }

\* SetResult leaving the logfile entry to the set_item call of line 30.
SetResult_skip_logfile(ns, result) ==
    [k \in DOMAIN result \ {"logfile"} |-> result[k]] @@ ns

\* The loop of setattr calls: every entry of result becomes an attribute.
SetResult(ns, result) == result @@ ns

\* SaveLogfile with "or" for "and".
SaveLogfile_or(result, savedir) ==
    result["logfile"] # None \/ savedir # None

\* The test guarding wsp.set_item("logfile", ..., save_fn=str).
SaveLogfile(result, savedir) ==
    result["logfile"] # None /\ savedir # None

\* -------------------------------------------------------- model_multite
\* OnRaise with the exception swallowed: the run goes on to the next step.
OnRaise_swallowed(step) ==
    CASE step = "fit_multite" -> "output_native"
      [] step = "output_native" -> "redo_reg"
      [] step = "redo_reg" -> "output_trans"
      [] step = "output_trans" -> "finish"

\* Where control goes when a step raises: nothing catches, the run ends.
OnRaise(step) == "raised"

\* ModelMultiteSeq with registration redone before the native outputs exist.
ModelMultiteSeq_reg_first(step) ==
    CASE step = "fit_multite" -> "redo_reg"
      [] step = "redo_reg" -> "output_native"
      [] step = "output_native" -> "output_trans"
      [] step = "output_trans" -> "finish"

\* The step that follows `step` in model_multite.
ModelMultiteSeq(step) ==
    CASE step = "fit_multite" -> "output_native"
      [] step = "output_native" -> "redo_reg"
      [] step = "redo_reg" -> "output_trans"
      [] step = "output_trans" -> "finish"

\* The workspace handed to model_multite, with its inputs drawn from the
\* given sets; nothing has run yet.
InitWith(datasets, bios, overrides, savedirs) ==
    /\ pc = "model_multite"
    /\ \E ds \in datasets, init \in BOOLEAN, sd \in savedirs,
          bio \in bios, ov \in overrides :
          wsp = ("asldata" :> ds) @@ ("mask" :> "mask") @@ ("savedir" :> sd)
                @@ ("multite_init" :> init) @@ bio
                @@ (IF ov = <<>> THEN <<>> ELSE "multite_options" :> ov)
    /\ subs = {}
    /\ multite = <<>>
    /\ init_mvn = "unset"
    /\ options = <<>>
    /\ fabber_calls = <<>>
    /\ fabber_result = <<>>
    /\ finalstep = <<>>
    /\ saved = {}
    /\ native = <<>>
    /\ reg_args = <<>>
    /\ trans = FALSE
    /\ log = <<>>
    /\ started = <<>>
    /\ completed = <<>>
    /\ error = "none"

\* Runs over every dataset and save directory, with a few configurations.
Init ==
    InitWith(InputDatasets,
             { <<>>, "t1" :> 13 },
             { ov \in OverrideMaps : ov = <<>> \/ "data" \in DOMAIN ov },
             {None, "/out"})

\* Runs over every configuration of the constants and every override file,
\* on the tag-control datasets in acquisition order.
InitOptions ==
    InitWith({ ds \in InputDatasets :
                 ds.iaf = "tc" /\ ds.order = <<"l", "r", "t", "e">> },
             PartialMaps(BioKeys, BioValues),
             OverrideMaps,
             {"/out"})

\* model_multite, line 113-114: create wsp.multite and enter fit_multite.
ModelMultite ==
    /\ pc = "model_multite"
    /\ subs' = subs \cup {"multite"}
    /\ started' = Append(started, "fit_multite")
    /\ pc' = "fit_check"
    /\ UNCHANGED fabber_result
    /\ UNCHANGED <<wsp, multite, init_mvn, options, fabber_calls, finalstep,
                   saved, native, reg_args, trans, log, completed, error>>

\* FitCheck with the test of line 69 negated.
FitCheck_negated ==
    /\ pc = "fit_check"
    /\ log' = Append(log, "fit_start")
    /\ IF ~is_var_repeats(View(multite)["asldata"])
       THEN /\ error' = "ValueError"
            /\ pc' = "raised"
       ELSE /\ error' = error
            /\ pc' = "fit_diff"
    /\ UNCHANGED fabber_result
    /\ UNCHANGED <<wsp, subs, multite, init_mvn, options, fabber_calls,
                   finalstep, saved, native, reg_args, trans, started,
                   completed>>

\* fit_multite, lines 68-70: log the start, refuse variable repeats.
FitCheck ==
    /\ pc = "fit_check"
    /\ log' = Append(log, "fit_start")
    /\ IF is_var_repeats(View(multite)["asldata"])
       THEN /\ error' = "ValueError"
            /\ pc' = OnRaise("fit_multite")
       ELSE /\ error' = error
            /\ pc' = "fit_diff"
    /\ UNCHANGED fabber_result
    /\ UNCHANGED <<wsp, subs, multite, init_mvn, options, fabber_calls,
                   finalstep, saved, native, reg_args, trans, started,
                   completed>>

\* FitDiffReorder with the result of line 74 not assigned back.
FitDiffReorder_unassigned ==
    /\ pc = "fit_diff"
    /\ pc' = "fit_init"
    /\ UNCHANGED fabber_result
    /\ UNCHANGED <<wsp, subs, multite, init_mvn, options, fabber_calls,
                   finalstep, saved, native, reg_args, trans, log, started,
                   completed, error>>

\* fit_multite, line 74: wsp.asldata = wsp.asldata.diff().reorder("etr").
FitDiffReorder ==
    /\ pc = "fit_diff"
    /\ multite' = ("asldata" :>
                     reorder(diff(View(multite)["asldata"]), <<"e", "t", "r">>))
                  @@ multite
    /\ pc' = "fit_init"
    /\ UNCHANGED fabber_result
    /\ UNCHANGED <<wsp, subs, init_mvn, options, fabber_calls, finalstep,
                   saved, native, reg_args, trans, log, started, completed,
                   error>>

\* fit_multite, lines 76-81: the optional initialisation.  The name fit_init
\* is looked up in the module's globals when line 78 runs.
FitInit ==
    /\ pc = "fit_init"
    /\ IF View(multite)["multite_init"]
       THEN /\ subs' = subs \cup {"multite/init"}
            /\ IF "fit_init" \in ModuleNames
               THEN /\ init_mvn' = "initial_mvn"
                    /\ error' = error
                    /\ pc' = "fit_options"
               ELSE /\ init_mvn' = init_mvn
                    /\ error' = "NameError"
                    /\ pc' = OnRaise("fit_multite")
       ELSE /\ subs' = subs
            /\ init_mvn' = None
            /\ error' = error
            /\ pc' = "fit_options"
    /\ UNCHANGED fabber_result
    /\ UNCHANGED <<wsp, multite, options, fabber_calls, finalstep, saved,
                   native, reg_args, trans, log, started, completed>>

\* fit_multite, line 84: options = _fabber_options(wsp.multite); the name
\* multite resolves through the parent to this same namespace.
FitOptions ==
    /\ pc = "fit_options"
    /\ options' = _fabber_options(View(multite))
    /\ pc' = "fit_fabber"
    /\ UNCHANGED fabber_result
    /\ UNCHANGED <<wsp, subs, multite, init_mvn, fabber_calls, finalstep,
                   saved, native, reg_args, trans, log, started, completed,
                   error>>

\* fit_multite, lines 86-88 with _run_fabber, lines 22-31: Fabber returns.
RunFabber ==
    /\ pc = "fit_fabber"
    /\ subs' = subs \cup {"multite/finalstep"}
    /\ fabber_calls' = Append(fabber_calls, options)
    /\ \E result \in Results :
          /\ fabber_result' = result
          /\ finalstep' = SetResult(finalstep, result)
          /\ saved' = IF SaveLogfile(result, SubSavedir("multite/finalstep"))
                      THEN saved \cup {"logfile"} ELSE saved
    /\ log' = log \o <<"fabber_start", "fabber_done", "fit_done">>
    /\ completed' = Append(completed, "fit_multite")
    /\ pc' = ModelMultiteSeq("fit_multite")
    /\ UNCHANGED <<wsp, multite, init_mvn, options, native, reg_args, trans,
                   started, error>>

\* The same call when Fabber raises: line 23 does not return.
RunFabberRaises ==
    /\ pc = "fit_fabber"
    /\ subs' = subs \cup {"multite/finalstep"}
    /\ fabber_calls' = Append(fabber_calls, options)
    /\ log' = Append(log, "fabber_start")
    /\ error' = "FabberError"
    /\ pc' = OnRaise("fit_multite")
    /\ UNCHANGED fabber_result
    /\ UNCHANGED <<wsp, multite, init_mvn, options, finalstep, saved, native,
                   reg_args, trans, started, completed>>

\* wsp.output.native.perfusion as line 123 reads it.
NativePerfusion == ifnone(native, "perfusion", None)

\* model_multite, lines 117-120: create wsp.output, write native outputs.
OutputNative ==
    /\ pc = "output_native"
    /\ subs' = subs \cup {"output"}
    /\ started' = Append(started, "output_native")
    /\ \/ /\ native' = ("perfusion" :> "native/perfusion") @@ native
          /\ completed' = Append(completed, "output_native")
          /\ pc' = ModelMultiteSeq("output_native")
          /\ error' = error
       \/ /\ native' = native
          /\ completed' = completed
          /\ pc' = OnRaise("output_native")
          /\ error' = "OutputNativeError"
    /\ UNCHANGED fabber_result
    /\ UNCHANGED <<wsp, multite, init_mvn, options, fabber_calls, finalstep,
                   saved, reg_args, trans, log>>

\* model_multite, line 123: redo registration with the perfusion map.
RedoReg ==
    /\ pc = "redo_reg"
    /\ started' = Append(started, "redo_reg")
    /\ reg_args' = Append(reg_args, NativePerfusion)
    /\ \/ /\ completed' = Append(completed, "redo_reg")
          /\ pc' = ModelMultiteSeq("redo_reg")
          /\ error' = error
       \/ /\ completed' = completed
          /\ pc' = OnRaise("redo_reg")
          /\ error' = "RedoRegError"
    /\ UNCHANGED fabber_result
    /\ UNCHANGED <<wsp, subs, multite, init_mvn, options, fabber_calls,
                   finalstep, saved, native, trans, log>>

\* model_multite, line 126: write the outputs in the transformed spaces.
OutputTrans ==
    /\ pc = "output_trans"
    /\ started' = Append(started, "output_trans")
    /\ \/ /\ trans' = TRUE
          /\ completed' = Append(completed, "output_trans")
          /\ pc' = ModelMultiteSeq("output_trans")
          /\ error' = error
       \/ /\ trans' = trans
          /\ completed' = completed
          /\ pc' = OnRaise("output_trans")
          /\ error' = "OutputTransError"
    /\ UNCHANGED fabber_result
    /\ UNCHANGED <<wsp, subs, multite, init_mvn, options, fabber_calls,
                   finalstep, saved, native, reg_args, log>>

\* model_multite, line 128: the completion marker.
Finish ==
    /\ pc = "finish"
    /\ log' = Append(log, "all_done")
    /\ pc' = "done"
    /\ UNCHANGED fabber_result
    /\ UNCHANGED <<wsp, subs, multite, init_mvn, options, fabber_calls,
                   finalstep, saved, native, reg_args, trans, started,
                   completed, error>>

Next ==
    \/ ModelMultite
    \/ FitCheck
    \/ FitDiffReorder
    \/ FitInit
    \/ FitOptions
    \/ RunFabber
    \/ RunFabberRaises
    \/ OutputNative
    \/ RedoReg
    \/ OutputTrans
    \/ Finish

Spec == Init /\ [][Next]_vars

SpecOptions == InitOptions /\ [][Next]_vars

\* ================================================================ claims
\* The dataset model_multite was given.
Input == wsp["asldata"]

\* The override mapping of the configuration ({} when there is none).
Override == ifnone(wsp, "multite_options", <<>>)

\* Every TI of the input has the same repeat count.
UniformInput == Cardinality({ Input.rpts[i] : i \in 1..Len(Input.rpts) }) = 1

\* fit_multite has gone past its precondition check.
PastCheck == pc \notin {"model_multite", "fit_check"}

AllSteps == <<"fit_multite", "output_native", "redo_reg", "output_trans">>

IsPrefix(s, t) == Len(s) <= Len(t) /\ \A i \in 1..Len(s) : s[i] = t[i]

\* C1: a dataset with non-uniform repeat counts makes fit_multite raise the
\* configuration error, and at that moment (and ever after) the dataset has
\* not been differenced or reordered, no init sub-namespace exists, no option
\* mapping has been built and the inference engine has not been invoked.
C1_VarRepeatsRejected ==
    (~UniformInput /\ PastCheck) =>
        /\ error = "ValueError"
        /\ "asldata" \notin DOMAIN multite
        /\ View(multite)["asldata"] = Input
        /\ "multite/init" \notin subs
        /\ options = <<>>
        /\ fabber_calls = <<>>
        /\ finalstep = <<>>

C1_Witness ==
    ~UniformInput /\ error = "ValueError" /\ pc = "raised"

\* C2: the four steps of model_multite start in the order fit_multite,
\* output_native, redo_reg, output_trans, each only after the one before it
\* returned and with that step's output present: the Fabber outputs before
\* output_native, output.native.perfusion before redo_reg (which receives
\* it), the registration before output_trans.
C2_StepsInOrder ==
    /\ IsPrefix(started, AllSteps)
    /\ IsPrefix(completed, started)
    /\ Len(started) <= Len(completed) + 1
    /\ Len(started) >= 2 =>
          "multite/finalstep" \in subs /\ finalstep # <<>>
    /\ Len(started) >= 3 =>
          /\ "perfusion" \in DOMAIN native
          /\ reg_args = <<native["perfusion"]>>
    /\ Len(started) < 3 => reg_args = <<>>
    /\ trans => Len(completed) = 4

C2_Witness ==
    pc = "done" /\ completed = AllSteps /\ trans

\* The configuration without its override mapping.
NoOverride(w) == [k \in DOMAIN w \ {"multite_options"} |-> w[k]]

\* C3: in the assembled options every key of the override mapping holds the
\* override's value, and every other key is present exactly when it is
\* without an override, with the value it has without an override.
C3_OverrideWins ==
    options # <<>> =>
        LET plain == _fabber_options(NoOverride(View(multite)))
        IN  /\ \A k \in DOMAIN Override :
                  k \in DOMAIN options /\ options[k] = Override[k]
            /\ \A k \in (DOMAIN options \cup DOMAIN plain) \ DOMAIN Override :
                  /\ k \in DOMAIN options
                  /\ k \in DOMAIN plain
                  /\ options[k] = plain[k]

C3_Witness ==
    /\ options # <<>>
    /\ Override = ("max-iterations" :> 50)
    /\ options["max-iterations"] = 50
    /\ options["method"] = "vb"

\* C4 as stated: each of t1, t1b, t2, t2b is absent from the assembled
\* options when it is unset in the configuration and present with the
\* configured value when it is set.
C4_AsStated ==
    options # <<>> =>
        \A k \in BioKeys :
            IF k \in DOMAIN wsp
            THEN k \in DOMAIN options /\ options[k] = wsp[k]
            ELSE k \notin DOMAIN options

\* C4 amended: the same, for each of the four keys that the override
\* mapping does not itself contain.
C4_BioKeysUnlessOverridden ==
    options # <<>> =>
        \A k \in BioKeys \ DOMAIN Override :
            IF k \in DOMAIN wsp
            THEN k \in DOMAIN options /\ options[k] = wsp[k]
            ELSE k \notin DOMAIN options

C4_Witness ==
    /\ options # <<>>
    /\ Override # <<>>
    /\ "t1b" \in DOMAIN wsp /\ wsp["t1b"] = 0 /\ options["t1b"] = 0
    /\ "t2" \notin DOMAIN wsp /\ "t2" \notin DOMAIN options

\* C5: without an override mapping the assembled options hold the fixed
\* keys with their literal values, the data, mask and timing lists of the
\* workspace, and as repeats the one repeat count every TI of the dataset has.
C5_FixedKeys ==
    (options # <<>> /\ "multite_options" \notin DOMAIN wsp) =>
        /\ {"method", "noise", "model", "data", "mask", "ti", "te", "tau",
            "repeats", "infertexch", "save-mean", "save-model-fit",
            "max-iterations"} \subseteq DOMAIN options
        /\ options["method"] = "vb"
        /\ options["noise"] = "white"
        /\ options["model"] = "asl_multite"
        /\ options["infertexch"] = TRUE
        /\ options["save-mean"] = TRUE
        /\ options["save-model-fit"] = TRUE
        /\ options["max-iterations"] = 30
        /\ options["data"] = multite["asldata"]
        /\ options["mask"] = wsp["mask"]
        /\ options["ti"] = Input.tis
        /\ options["te"] = Input.tes
        /\ options["tau"] = Input.taus
        /\ \A i \in 1..Len(Input.rpts) : options["repeats"] = Input.rpts[i]

C5_Witness ==
    /\ options # <<>>
    /\ "multite_options" \notin DOMAIN wsp
    /\ options["repeats"] = 1

\* The (t, e, r) indices of the volumes of a sequence.
Indices(vols) ==
    { [t |-> vols[i].t, e |-> vols[i].e, r |-> vols[i].r] : i \in 1..Len(vols) }

\* a precedes b in "etr" ordering: repeats slowest, then TIs, TEs fastest.
EtrBefore(a, b) ==
    \/ a.r < b.r
    \/ a.r = b.r /\ a.t < b.t
    \/ a.r = b.r /\ a.t = b.t /\ a.e < b.e

\* C6: unless the override mapping replaces "data", the dataset Fabber is
\* invoked with is the label/control subtraction of the input (one
\* control-minus-tag volume for each pair of the input) laid out in "etr"
\* order; it is not the dataset model_multite was given.
C6_DataIsDiffEtr ==
    \A c \in 1..Len(fabber_calls) :
        "data" \notin DOMAIN Override =>
            LET d == fabber_calls[c]["data"]
            IN  /\ d # Input
                /\ d.iaf = "diff"
                /\ d.order = <<"e", "t", "r">>
                /\ 2 * Len(d.vols) = Len(Input.vols)
                /\ Indices(d.vols) = Indices(Input.vols)
                /\ \A i \in 1..Len(d.vols) :
                      d.vols[i].plus = "ctl" /\ d.vols[i].minus = "tag"
                /\ \A i, j \in 1..Len(d.vols) :
                      i < j => EtrBefore(d.vols[i], d.vols[j])

C6_Witness ==
    /\ Len(fabber_calls) = 1
    /\ "data" \notin DOMAIN Override
    /\ Input.iaf = "ct"
    /\ Input.order = <<"l", "r", "t", "e">>
    /\ Len(Input.vols) = 2 * MaxRpt * Len(InputTis) * Len(InputTes)

\* C7: once Fabber has returned, the target namespace holds every key of
\* the result with the returned value and holds nothing else; before that
\* it holds nothing.
C7_ResultExposed ==
    /\ fabber_result = <<>> => finalstep = <<>>
    /\ fabber_result # <<>> =>
          /\ \A k \in DOMAIN fabber_result :
                k \in DOMAIN finalstep /\ finalstep[k] = fabber_result[k]
          /\ DOMAIN finalstep \subseteq DOMAIN fabber_result

C7_Witness ==
    /\ "mean_ftiss" \in DOMAIN fabber_result
    /\ fabber_result["mean_ftiss"] = MaxVal
    /\ finalstep["mean_ftiss"] = MaxVal
    /\ finalstep["logfile"] = "/tmp/log.txt"

\* C8: once Fabber has returned, the key "logfile" is registered for
\* persistence exactly when the result's logfile is a path and the workspace
\* has a save directory; nothing else is ever registered, and in either case
\* the call has returned normally (fit_multite completed without an error).
C8_LogfileSaved ==
    /\ fabber_result = <<>> => saved = {}
    /\ fabber_result # <<>> =>
          /\ saved \subseteq {"logfile"}
          /\ "logfile" \in saved <=>
                (fabber_result["logfile"] # None /\ wsp["savedir"] # None)
          /\ "fit_multite" \in SeqToSet(completed)
          /\ error \notin {"ValueError", "NameError", "FabberError"}

C8_Witness ==
    /\ "logfile" \in saved
    /\ fabber_result["logfile"] = "/tmp/log.txt"
    /\ wsp["savedir"] = "/out"

\* Errors raised by the collaborators rather than by fit_multite's own code.
CollaboratorErrors ==
    {"FabberError", "OutputNativeError", "RedoRegError", "OutputTransError"}

\* C9: on a dataset with uniform repeats, when fit_multite has got past the
\* initialisation without a collaborator failing: with multite_init set the
\* init sub-namespace exists and initial_mvn was captured from fit_init, with
\* it unset there is no init sub-namespace; in both cases the options are
\* then built and Fabber is invoked with the same mapping.
C9_InitThenFit ==
    (UniformInput /\ pc \notin {"model_multite", "fit_check", "fit_diff",
                               "fit_init"}
                  /\ error \notin CollaboratorErrors) =>
        /\ IF wsp["multite_init"]
           THEN "multite/init" \in subs /\ init_mvn = "initial_mvn"
           ELSE "multite/init" \notin subs /\ init_mvn = None
        /\ pc # "fit_options" =>
              options = _fabber_options(View(multite))
        /\ pc \notin {"fit_options", "fit_fabber"} =>
              fabber_calls = <<options>>

\* C10: failures are fatal and never retried.  In every state: Fabber has
\* been invoked at most once, no step has started twice, and after an error
\* the run has ended without the completion marker.  In every step: the run
\* was free of errors before it, and a step that raises completes nothing.
C10_FailuresFatal ==
    /\ [](/\ Len(fabber_calls) <= 1
          /\ \A i, j \in 1..Len(started) : i # j => started[i] # started[j]
          /\ error # "none" =>
                /\ pc = "raised"
                /\ "all_done" \notin SeqToSet(log)
                /\ ~trans)
    /\ [][/\ error = "none"
          /\ error' # "none" => completed' = completed]_vars

C10_Witness ==
    /\ error = "RedoRegError"
    /\ pc = "raised"
    /\ started = <<"fit_multite", "output_native", "redo_reg">>
    /\ completed = <<"fit_multite", "output_native">>

====
